---------------------------- MODULE Spec2Model ----------------------------
(***************************************************************************)
(* Model of the Solana AI Assistant browser extension:                     *)
(*   - the background service worker (src/src/background.ts): the          *)
(*     SolscanAIAssistant object (settings, Gemini client, MCP client,     *)
(*     tool list, tool schema), its asynchronous operations and the        *)
(*     chrome.runtime.onMessage / chrome.storage.onChanged listeners;      *)
(*   - the content script (src/unnamed/part_001): the chat transcript      *)
(*     (conversationHistory) and sendChatMessage.                          *)
(*                                                                         *)
(* JavaScript runs each handler to its next await without interruption,   *)
(* so one action is the code between two awaits (or from a handler's      *)
(* entry to its first await).  Texts are sequences of string tokens, so    *)
(* that template interpolation and concatenation can be computed.          *)
(* A nullable field is <<>> (null / undefined) or <<v>>.                   *)
(***************************************************************************)
EXTENDS Naturals, Sequences, FiniteSets, TLC

(* ------------------------------ bounds -------------------------------- *)
\* chat exchanges started in one run
MaxChats == 1
\* function calls in one model response
MaxCalls == 2
\* MCP Client objects constructed in one run
MaxClients == 3
\* registry operations in one run: init, then reloadSettings / reloadMCPTools
\* requests and storage-change reloads
MaxOps == 3
\* requests of the content script in one run of a session (chats and
\* summaries); at least MaxChats
MaxRequests == 2
\* tools in a list the tool service serves to the converter
MaxTools == 2

(* --------------------------- nullable values -------------------------- *)
None == <<>>
Some(x) == <<x>>
Truthy(s) == s # ""

(* ------------------------------ data ---------------------------------- *)
ApiKeys == {"", "key1"}
McpUrls == {"", "url1", "url2"}
StoredLanguages == {"en-US"}
\* language codes a settings store can hold: the four the prompts are written
\* in, none, one without prompts, and one that names a member of
\* Object.prototype
LanguageCodes == {"zh-CN", "en-US", "ja-JP", "ko-KR", "", "fr-FR", "constructor"}
Questions == {"q1", "q2"}
Signatures == {"SIG1", "SIG2"}
Payloads == {"payload1"}
ToolErrors == {"tool failed"}

\* MCPTool values as the tool service lists them (description, properties
\* and required are optional)
ToolTx == [name |-> "get_solana_transaction", description |-> Some("tx"),
           properties |-> Some("signature"), required |-> Some(<<"signature">>)]
ToolAcct == [name |-> "get_account", description |-> None,
             properties |-> None, required |-> None]
RemoteToolLists == {<<>>, <<ToolTx, ToolAcct>>}
ToolNames == {"get_solana_transaction", "get_account"}
\* a tool with a description but without an inputSchema
ToolBare == [name |-> "get_balance", description |-> Some("balance"),
             properties |-> None, required |-> None]
ToolDescriptors == {ToolTx, ToolAcct, ToolBare}
\* every list of up to MaxTools descriptors
DescriptorLists == UNION {[1..n -> ToolDescriptors] : n \in 0..MaxTools}

(* --------------------------- pure functions --------------------------- *)
\* x || d  for strings
OrElse(x, d) == IF Truthy(x) THEN x ELSE d

\* Array.prototype.join: the pieces separated by sep
RECURSIVE Join(_, _)
Join(pieces, sep) ==
    IF pieces = <<>> THEN <<>>
    ELSE IF Len(pieces) = 1 THEN pieces[1]
    ELSE pieces[1] \o sep \o Join(Tail(pieces), sep)

Tokens(text) == {text[i] : i \in 1..Len(text)}

\* the defaults of loadSettings (lines 86-87); temperatures are in tenths
DefaultTemperature == 7
DefaultMaxTokens == 2048
\* stored[key] || d  for numbers: a key that is not stored reads undefined,
\* and undefined and 0 are falsy
NumberOrElse(stored, key, d) ==
    IF key \in DOMAIN stored /\ stored[key] # 0 THEN stored[key] ELSE d

\* loadSettings: the Settings object built from a chrome.storage.sync read
SettingsFrom(stored) ==
    [geminiApiKey |-> OrElse(stored.geminiApiKey, ""),
     mcpUrl |-> OrElse(stored.mcpUrl, ""),
     temperature |-> NumberOrElse(stored, "temperature", DefaultTemperature),
     maxTokens |-> NumberOrElse(stored, "maxTokens", DefaultMaxTokens),
     responseLanguage |-> OrElse(stored.responseLanguage, "zh-CN")]

\* the generationConfig of a generateContent call (lines 270-273, 375-379)
GenerationConfig(s) == [temperature |-> s.temperature, maxOutputTokens |-> s.maxTokens]

\* a conversion that gives an empty declaration list for no tools
convertMCPToolsToGeminiEmptyList(tools) ==
    IF tools = None THEN None
    ELSE Some([functionDeclarations |->
                 [i \in 1..Len(tools[1]) |->
                     [name |-> tools[1][i].name,
                      description |-> IF tools[1][i].description = None THEN ""
                                      ELSE tools[1][i].description[1],
                      parameters |-> [type |-> "object",
                                      properties |-> IF tools[1][i].properties = None THEN {}
                                                     ELSE {tools[1][i].properties[1]},
                                      required |-> IF tools[1][i].required = None THEN <<>>
                                                   ELSE tools[1][i].required[1]]]]])

\* convertMCPToolsToGemini: null for no tools, else one declaration per tool
FunctionDeclaration(tool) ==
    [name |-> tool.name,
     description |-> IF tool.description = None THEN "" ELSE tool.description[1],
     parameters |-> [type |-> "object",
                     properties |-> IF tool.properties = None THEN {} ELSE {tool.properties[1]},
                     required |-> IF tool.required = None THEN <<>> ELSE tool.required[1]]]

convertMCPToolsToGemini(tools) ==
    IF tools = None \/ tools[1] = <<>> THEN None
    ELSE Some([functionDeclarations |->
                 [i \in 1..Len(tools[1]) |-> FunctionDeclaration(tools[1][i])]])

\* getChatPrompt: the template of the language (en-US for an unknown code)
\* with signature, history and question interpolated
PromptLanguages == {"zh-CN", "en-US", "ja-JP", "ko-KR"}
TemplateOf(language) == IF language \in PromptLanguages THEN language ELSE "en-US"
\* prompts[language] reads a property of an object literal: a name that the
\* literal does not define but Object.prototype does gives the inherited
\* member, which is truthy, so `|| prompts['en-US']` does not apply
ObjectPrototypeNames == {"constructor", "toString"}
InheritedMember(language) == <<"Object.prototype", language>>
HistoryLine(msg) == <<msg.role, ": ", msg.content>>
HistoryLines(h) == [i \in 1..Len(h) |-> HistoryLine(h[i])]
getChatPrompt(signature, userMessage, conversationHistory, language) ==
    IF language \in ObjectPrototypeNames THEN InheritedMember(language)
    ELSE <<"chat-intro", TemplateOf(language), signature, "history-header">>
         \o Join(HistoryLines(conversationHistory), <<"\n">>)
         \o <<"question-header", userMessage, "chat-instructions", TemplateOf(language)>>

\* getTransactionSummaryPrompt: the template of the language (en-US for an
\* unknown code) with the signature interpolated
getTransactionSummaryPrompt(signature, language) ==
    IF language \in ObjectPrototypeNames THEN InheritedMember(language)
    ELSE <<"summary-intro", TemplateOf(language), signature,
           "summary-instructions", TemplateOf(language)>>

\* contents that pass the roles of the transcript on as they are
BuildContentsSameRoles(conversationHistory, context) ==
    [i \in 1..Len(conversationHistory) |->
        [role |-> conversationHistory[i].role, text |-> <<conversationHistory[i].content>>]]
    \o <<[role |-> "user", text |-> context]>>

\* the Gemini contents of the first call: history turns, then the prompt
GeminiTurn(msg) ==
    [role |-> IF msg.role = "user" THEN "user" ELSE "model", text |-> <<msg.content>>]
BuildContents(conversationHistory, context) ==
    [i \in 1..Len(conversationHistory) |-> GeminiTurn(conversationHistory[i])]
    \o <<[role |-> "user", text |-> context]>>

\* JSON.stringify(value, null, 2); undefined gives undefined, which the
\* template literal prints as the word
Stringify(value) == IF value = None THEN <<"undefined">> ELSE <<"json{", value[1], "}">>

\* one toolResults entry as the follow-up prompt prints it
ToolResultText(result) == <<"Tool: ", result.tool, "\nResult: ">> \o Stringify(result.result)
ToolResultsText(toolResults) ==
    Join([i \in 1..Len(toolResults) |-> ToolResultText(toolResults[i])], <<"\n\n">>)

\* finalPromptAdditions[language] || finalPromptAdditions['en-US']
FinalPromptAddition(language, toolResults) ==
    IF language \in ObjectPrototypeNames THEN InheritedMember(language)
    ELSE <<"\n\n", "tool-results-header", TemplateOf(language), "\n">>
         \o ToolResultsText(toolResults)
         \o <<"\n\n", "final-instructions", TemplateOf(language)>>

FinalPrompt(context, language, toolResults) ==
    context \o FinalPromptAddition(language, toolResults)

\* the text of the first part with a truthy text, or the fallback
TextOf(response, fallback) == IF Truthy(response.text) THEN response.text ELSE fallback

(* ------------------------------- state -------------------------------- *)
VARIABLES
    store,                \* chrome.storage.sync: the stored settings
    remoteTools,          \* the tool list the MCP service currently serves
    settings,             \* this.settings (background)
    genAI,                \* this.genAI
    mcpClient,            \* this.mcpClient: 0 for null, else an index of clients
    mcpTools,             \* this.mcpTools
    geminiTools,          \* this.geminiTools
    isInitialized,        \* the background's isInitialized flag
    clients,              \* the Client objects constructed so far
    ops,                  \* registry operations, in the order they started
    chats,                \* chat exchanges, in the order they started
    conversationHistory,  \* the content script's transcript
    transactionSignature, \* the content script's subject (the page's signature)
    chatPanel,            \* the content script has a chat panel (not null)
    isLoading             \* the content script's isLoading flag

vars == <<store, remoteTools, settings, genAI, mcpClient, mcpTools, geminiTools,
          isInitialized, clients, ops, chats, conversationHistory,
          transactionSignature, chatPanel, isLoading>>

background == <<settings, genAI, mcpClient, mcpTools, geminiTools, isInitialized, clients>>
registry == <<mcpClient, mcpTools, geminiTools, clients>>

session == <<transactionSignature, chatPanel, isLoading>>

NoResponse == [success |-> FALSE, response |-> "", error |-> "", diagnostics |-> None]
Success(text) == [NoResponse EXCEPT !.success = TRUE, !.response = text]
Failure(message) == [NoResponse EXCEPT !.error = message]

\* one request of the content script: sendChatMessage and the
\* chatWithTransaction call it causes in the background, or
\* loadTransactionSummary and its generateTransactionSummary call
IdleChat ==
    [pc |-> "idle", action |-> "", message |-> "", signature |-> "", history |-> <<>>,
     context |-> <<>>, contents |-> <<>>, tools |-> None, calls |-> <<>>,
     results |-> <<>>, finalContents |-> <<>>, modelCalls |-> 0, toolCalls |-> 0,
     finalTools |-> None, client |-> 0, response |-> NoResponse, sent |-> 0,
     generationConfig |-> None]
\* the listener's sendResponse(r) for the request (background.ts lines 548-682)
sendResponse(chat, r) == [chat EXCEPT !.pc = "responded", !.response = r, !.sent = @ + 1]
\* a request the content script has the response of
DoneChat(chat) ==
    [IdleChat EXCEPT !.pc = "done", !.action = chat.action, !.message = chat.message,
                     !.response = chat.response, !.sent = chat.sent]

\* one registry operation: init, reloadSettings, reloadMCPTools, or the
\* loadSettings the storage.onChanged listener starts
\* (changed: the tool service changed its tools since this one was called)
IdleOp == [kind |-> "none", pc |-> "idle", client |-> 0, changed |-> FALSE]
DoneOp == [IdleOp EXCEPT !.pc = "done"]

ChatIds == 1..MaxChats
RequestIds == 1..MaxRequests
OpIds == 1..MaxOps

\* a discovery (connect or listTools) is awaited by an operation or a chat
Discovering(t) == t.pc \in {"connect", "list"}
DiscoveryInFlight ==
    \/ \E o \in OpIds : Discovering(ops[o])
    \/ \E c \in RequestIds : Discovering(chats[c])

Init ==
    /\ store \in [geminiApiKey : ApiKeys, mcpUrl : McpUrls, responseLanguage : StoredLanguages]
    /\ remoteTools \in RemoteToolLists
    /\ settings = None
    /\ genAI = None
    /\ mcpClient = 0
    /\ mcpTools = None
    /\ geminiTools = None
    /\ isInitialized = FALSE
    /\ clients = <<>>
    \* the script has called assistant.init(), which awaits the storage read
    /\ ops = [o \in OpIds |-> IF o = 1 THEN [IdleOp EXCEPT !.kind = "init", !.pc = "loadSettings"]
                              ELSE IdleOp]
    /\ chats = [c \in RequestIds |-> IdleChat]
    /\ conversationHistory = <<>>
    /\ transactionSignature = "SIG1"
    /\ chatPanel = FALSE
    /\ isLoading = FALSE

\* A background that has lost its client but not its schema: init read an
\* endpoint and awaited listTools, the endpoint was removed from the settings
\* (storage.onChanged), reloadMCPTools then nulled the client and returned at
\* line 109, and init's listTools resolved (lines 151-155).  TLC reaches this
\* background under SpecRegistry, with these three operations done (the
\* invariant that some operation is not done or the background differs is
\* violated there); here no operation has been requested since.
Detached ==
    /\ store = [geminiApiKey |-> "key1", mcpUrl |-> "", responseLanguage |-> "en-US"]
    /\ remoteTools = <<ToolTx, ToolAcct>>
    /\ settings = Some(SettingsFrom(store))
    /\ genAI = Some([apiKey |-> "key1"])
    /\ mcpClient = 0
    /\ mcpTools = Some(remoteTools)
    /\ geminiTools = convertMCPToolsToGemini(mcpTools)
    /\ isInitialized = TRUE
    /\ clients = <<[url |-> "url1", state |-> "connected"]>>
    /\ ops = [o \in OpIds |-> IdleOp]
    /\ chats = [c \in RequestIds |-> IdleChat]
    /\ conversationHistory = <<>>
    /\ transactionSignature = "SIG1"
    /\ chatPanel = FALSE
    /\ isLoading = FALSE

InitExchange == Init \/ Detached

\* the state after construction with a credential, no endpoint and any
\* stored language
InitPrompt ==
    /\ store \in [geminiApiKey : {"key1"}, mcpUrl : {""}, responseLanguage : LanguageCodes]
    /\ remoteTools = <<>>
    /\ settings = None
    /\ genAI = None
    /\ mcpClient = 0
    /\ mcpTools = None
    /\ geminiTools = None
    /\ isInitialized = FALSE
    /\ clients = <<>>
    /\ ops = [o \in OpIds |-> IF o = 1 THEN [IdleOp EXCEPT !.kind = "init", !.pc = "loadSettings"]
                              ELSE IdleOp]
    /\ chats = [c \in RequestIds |-> IdleChat]
    /\ conversationHistory = <<>>
    /\ transactionSignature \in Signatures
    /\ chatPanel = FALSE
    /\ isLoading = FALSE

\* the state after construction with an endpoint whose tool service serves
\* any list of descriptors
InitConvert ==
    /\ store \in [geminiApiKey : ApiKeys, mcpUrl : {"url1"}, responseLanguage : StoredLanguages]
    /\ remoteTools \in DescriptorLists
    /\ settings = None
    /\ genAI = None
    /\ mcpClient = 0
    /\ mcpTools = None
    /\ geminiTools = None
    /\ isInitialized = FALSE
    /\ clients = <<>>
    /\ ops = [o \in OpIds |-> IF o = 1 THEN [IdleOp EXCEPT !.kind = "init", !.pc = "loadSettings"]
                              ELSE IdleOp]
    /\ chats = [c \in RequestIds |-> IdleChat]
    /\ conversationHistory = <<>>
    /\ transactionSignature = "SIG1"
    /\ chatPanel = FALSE
    /\ isLoading = FALSE

\* the transcripts a page starts an exchange with: none, or the turns of an
\* earlier exchange (pushed at part_001 lines 588-591)
Transcripts ==
    {<<>>,
     <<[role |-> "user", content |-> "q2"], [role |-> "assistant", content |-> "a2"]>>}

\* A background whose init has run to its end with a credential, an endpoint
\* and a tool service that serves tools (lines 61-78), under a page that may
\* have had an exchange; the chat panel exists once a turn was pushed.
Started ==
    /\ store = [geminiApiKey |-> "key1", mcpUrl |-> "url1", responseLanguage |-> "en-US"]
    /\ remoteTools = <<ToolTx, ToolAcct>>
    /\ settings = Some(SettingsFrom(store))
    /\ genAI = Some([apiKey |-> "key1"])
    /\ mcpClient = 1
    /\ mcpTools = Some(remoteTools)
    /\ geminiTools = convertMCPToolsToGemini(mcpTools)
    /\ isInitialized = TRUE
    /\ clients = <<[url |-> "url1", state |-> "connected"]>>
    /\ ops = [o \in OpIds |-> IF o = 1 THEN DoneOp ELSE IdleOp]
    /\ chats = [c \in RequestIds |-> IdleChat]
    /\ conversationHistory \in Transcripts
    /\ transactionSignature = "SIG1"
    /\ chatPanel \in {b \in BOOLEAN : conversationHistory # <<>> => b}
    /\ isLoading = FALSE

(* ------------------------ the external services ----------------------- *)
\* what generateContent can answer: a failure, or content parts holding a
\* text (or none: "") and function calls of tools that were declared to it
DeclaredNames(tools) ==
    IF tools = None THEN {}
    ELSE {tools[1].functionDeclarations[i].name : i \in DOMAIN tools[1].functionDeclarations}
\* the function calls of one reply: up to MaxCalls calls, declared tools in
\* turn, starting with either
NameAt(i) == IF i % 2 = 1 THEN "get_solana_transaction" ELSE "get_account"
CallSequences(declared) ==
    {ns \in UNION {{[i \in 1..m |-> NameAt(i)], [i \in 1..m |-> NameAt(i + 1)]} : m \in 0..MaxCalls} :
        \A i \in DOMAIN ns : ns[i] \in declared}
FunctionCall(name) == [name |-> name, args |-> "args"]
\* the text the model answers a question with, when it answers with a text
AnswerTo(message) ==
    IF message = "q1" THEN "a1" ELSE IF message = "q2" THEN "a2" ELSE "summary1"
\* the text the model answers the follow-up prompt of a question with
FinalAnswerTo(message) == IF message = "q1" THEN "final1" ELSE "final2"
\* what the second generateContent can answer
FinalModelReplies(message, tools) ==
    {[ok |-> FALSE, text |-> "", calls |-> <<>>]} \cup
    {[ok |-> TRUE, text |-> t, calls |-> [i \in DOMAIN ns |-> FunctionCall(ns[i])]] :
        t \in {"", FinalAnswerTo(message)}, ns \in CallSequences(DeclaredNames(tools))}
ModelReplies(message, tools) ==
    {[ok |-> FALSE, text |-> "", calls |-> <<>>]} \cup
    {[ok |-> TRUE, text |-> t, calls |-> [i \in DOMAIN ns |-> FunctionCall(ns[i])]] :
        t \in {"", AnswerTo(message)}, ns \in CallSequences(DeclaredNames(tools))}

\* what callTool can answer: a payload, or an error; a client whose
\* connection failed has no transport and only fails
ToolReplies(client) ==
    {[ok |-> FALSE, value |-> e] : e \in ToolErrors} \cup
    (IF clients[client].state = "failed" THEN {}
     ELSE {[ok |-> TRUE, value |-> p] : p \in Payloads})

(* --------------------------- loadMCPTools ----------------------------- *)
\* the guards of loadMCPTools (lines 109-118), on the settings and client
\* the caller has at that point
LoadReturns(s, client) == s = None \/ ~Truthy(s[1].mcpUrl) \/ client # 0

NewClient(url) == [url |-> url, state |-> "connecting"]

\* lines 136-145: construct the client and await connect
StartDiscovery(s) ==
    /\ Len(clients) < MaxClients
    /\ clients' = Append(clients, NewClient(s[1].mcpUrl))
    /\ mcpClient' = Len(clients) + 1

\* lines 150-156: the tools listed become the tool list and the schema
Discovered(tools) ==
    /\ mcpTools' = Some(tools)
    /\ geminiTools' = convertMCPToolsToGemini(Some(tools))

SetState(client, state) == [clients EXCEPT ![client].state = state]

(* ------------------------ registry operations ------------------------- *)

\* initializeGemini (lines 93-105)
initializeGemini(s, current) ==
    IF ~Truthy(s.geminiApiKey) THEN current ELSE Some([apiKey |-> s.geminiApiKey])

\* an init and a reloadSettings that use the storage read without keeping
\* it in this.settings
OpSettingsLoadedNotKept(o) ==
    LET op == ops[o]
        s == Some(SettingsFrom(store))
    IN  /\ op.pc = "loadSettings"
        /\ settings' = IF op.kind = "onChanged" THEN s ELSE settings
        /\ UNCHANGED <<store, remoteTools, mcpTools, geminiTools, chats, conversationHistory, session>>
        /\ IF op.kind = "onChanged"
           THEN /\ ops' = [ops EXCEPT ![o] = DoneOp]
                /\ UNCHANGED <<genAI, mcpClient, clients, isInitialized>>
           ELSE /\ genAI' = initializeGemini(s[1], genAI)
                /\ IF LoadReturns(s, mcpClient)
                   THEN /\ ops' = [ops EXCEPT ![o] = DoneOp]
                        /\ isInitialized' = (isInitialized \/ op.kind = "init")
                        /\ UNCHANGED <<mcpClient, clients>>
                   ELSE /\ StartDiscovery(s)
                        /\ ops' = [ops EXCEPT ![o].pc = "connect", ![o].client = mcpClient']
                        /\ UNCHANGED isInitialized
\* loadSettings resumes with the storage read (lines 81-91); init and
\* reloadSettings go on to initializeGemini and loadMCPTools
OpSettingsLoaded(o) ==
    LET op == ops[o]
        s == Some(SettingsFrom(store))
    IN  /\ op.pc = "loadSettings"
        /\ settings' = s
        /\ UNCHANGED <<store, remoteTools, mcpTools, geminiTools, chats, conversationHistory, session>>
        /\ IF op.kind = "onChanged"
           THEN /\ ops' = [ops EXCEPT ![o] = DoneOp]
                /\ UNCHANGED <<genAI, mcpClient, clients, isInitialized>>
           ELSE /\ genAI' = initializeGemini(s[1], genAI)
                /\ IF LoadReturns(s, mcpClient)
                   THEN /\ ops' = [ops EXCEPT ![o] = DoneOp]
                        /\ isInitialized' = (isInitialized \/ op.kind = "init")
                        /\ UNCHANGED <<mcpClient, clients>>
                   ELSE /\ StartDiscovery(s)
                        /\ ops' = [ops EXCEPT ![o].pc = "connect", ![o].client = mcpClient']
                        /\ UNCHANGED isInitialized

\* connect resolves or rejects (line 145); on success listTools is called
\* on whatever this.mcpClient is now (line 150)
OpConnected(o, ok) ==
    LET op == ops[o]
    IN  /\ op.pc = "connect"
        /\ clients' = SetState(op.client, IF ok THEN "connected" ELSE "failed")
        /\ UNCHANGED <<store, remoteTools, settings, genAI, mcpClient, mcpTools, geminiTools,
                       chats, conversationHistory, session>>
        /\ IF ok /\ mcpClient # 0
           THEN /\ ops' = [ops EXCEPT ![o].pc = "list", ![o].client = mcpClient]
                /\ UNCHANGED isInitialized
           ELSE /\ ops' = [ops EXCEPT ![o] = DoneOp]
                /\ isInitialized' = (isInitialized \/ op.kind = "init")

\* listTools resolves or rejects (lines 150-161)
OpListed(o, ok) ==
    LET op == ops[o]
    IN  /\ op.pc = "list"
        /\ ok => clients[op.client].state # "failed"
        /\ IF ok THEN Discovered(remoteTools) ELSE UNCHANGED <<mcpTools, geminiTools>>
        /\ ops' = [ops EXCEPT ![o] = DoneOp]
        /\ isInitialized' = (isInitialized \/ op.kind = "init")
        /\ UNCHANGED <<store, remoteTools, settings, genAI, mcpClient, clients,
                       chats, conversationHistory, session>>

FreeOp(o) == ops[o].pc = "idle" /\ \A p \in OpIds : p < o => ops[p].pc # "idle"

\* the options page saves settings (SettingsManager.save); the background's
\* storage.onChanged listener starts loadSettings (lines 700-708)
SaveSettings(o, new) ==
    /\ FreeOp(o)
    /\ new # store
    /\ store' = new
    /\ ops' = [ops EXCEPT ![o] = [IdleOp EXCEPT !.kind = "onChanged", !.pc = "loadSettings"]]
    /\ UNCHANGED <<remoteTools, background, chats, conversationHistory, session>>

\* the onMessage listener's reloadSettings branch (lines 634-648)
RequestReloadSettings(o) ==
    /\ FreeOp(o)
    /\ ops' = [ops EXCEPT ![o] = [IdleOp EXCEPT !.kind = "reloadSettings", !.pc = "loadSettings"]]
    /\ UNCHANGED <<store, remoteTools, background, chats, conversationHistory, session>>

\* a reloadMCPTools that keeps what the registry holds
reloadMCPToolsKeepCache(o) ==
    /\ UNCHANGED <<mcpTools, geminiTools>>
    /\ IF LoadReturns(settings, mcpClient)
       THEN /\ ops' = [ops EXCEPT ![o] = DoneOp]
            /\ UNCHANGED <<mcpClient, clients>>
       ELSE /\ StartDiscovery(settings)
            /\ ops' = [ops EXCEPT ![o] = [IdleOp EXCEPT !.kind = "reloadMCPTools",
                                                        !.pc = "connect",
                                                        !.client = mcpClient']]

\* reloadMCPTools (lines 500-505), called by the listener (lines 650-664)
reloadMCPTools(o) ==
    LET op == [IdleOp EXCEPT !.kind = "reloadMCPTools"]
    IN  /\ mcpTools' = None
        /\ geminiTools' = None
        /\ IF LoadReturns(settings, 0)
           THEN /\ mcpClient' = 0
                /\ ops' = [ops EXCEPT ![o] = DoneOp]
                /\ UNCHANGED clients
           ELSE /\ StartDiscovery(settings)
                /\ ops' = [ops EXCEPT ![o] = [op EXCEPT !.pc = "connect",
                                                         !.client = mcpClient']]

RequestReloadMCPTools(o) ==
    /\ FreeOp(o)
    /\ reloadMCPTools(o)
    /\ UNCHANGED <<store, remoteTools, settings, genAI, isInitialized, chats,
                   conversationHistory, session>>

\* the tool service changes the tools it serves
RemoteChange(new) ==
    /\ new # remoteTools
    /\ remoteTools' = new
    /\ ops' = [o \in OpIds |-> IF ops[o].pc \in {"idle", "done"} THEN ops[o]
                               ELSE [ops[o] EXCEPT !.changed = TRUE]]
    /\ UNCHANGED <<store, background, chats, conversationHistory, session>>

(* --------------------------- chat exchanges --------------------------- *)
FreeChat(c) == chats[c].pc = "idle" /\ \A d \in RequestIds : d < c => chats[d].pc # "idle"

\* a chatWithTransaction that refuses to call the model without a schema
FirstCallRequireTools(chat, s, schema) ==
    IF schema = None
    THEN sendResponse(chat, Failure("MCP tools not available"))
    ELSE [chat EXCEPT !.pc = "model1",
                      !.context = getChatPrompt(chat.signature, chat.message, <<>>,
                                                s[1].responseLanguage),
                      !.contents = BuildContents(chat.history,
                                                 getChatPrompt(chat.signature, chat.message, <<>>,
                                                               s[1].responseLanguage)),
                      !.tools = schema, !.modelCalls = 1, !.client = 0,
                      !.generationConfig = Some(GenerationConfig(s[1]))]

\* lines 355-391: the contents and config of the first generateContent
FirstCall(chat, s, schema) ==
    LET context == getChatPrompt(chat.signature, chat.message, <<>>, s[1].responseLanguage)
    IN  [chat EXCEPT !.pc = "model1", !.context = context,
                     !.contents = BuildContents(chat.history, context),
                     !.tools = schema, !.modelCalls = 1, !.client = 0,
                     !.generationConfig = Some(GenerationConfig(s[1]))]

\* sendChatMessage sends the request (part_001 lines 552-574), which carries
\* the transcript as it is when sendMessage is called; the listener (lines
\* 607-632) calls chatWithTransaction, which runs to its first await (lines
\* 339-391).  The content script's wait for checkExtensionConnection changes
\* no state, and sending reads only the content script's state while the
\* listener reads only the background's, so the three are one step.
SendChat(c, message) ==
    LET chat == [IdleChat EXCEPT !.action = "chatWithTransaction",
                                 !.message = message,
                                 !.signature = transactionSignature,
                                 !.history = conversationHistory]
    IN  /\ FreeChat(c)
        /\ chatPanel
        /\ UNCHANGED <<store, remoteTools, settings, genAI, mcpTools, geminiTools,
                       isInitialized, ops, conversationHistory, session>>
        /\ IF genAI = None
           THEN /\ chats' = [chats EXCEPT ![c] =
                       sendResponse(chat, Failure("Gemini AI not initialized"))]
                /\ UNCHANGED <<mcpClient, clients>>
           ELSE IF geminiTools # None \/ LoadReturns(settings, mcpClient)
           THEN /\ chats' = [chats EXCEPT ![c] = FirstCall(chat, settings, geminiTools)]
                /\ UNCHANGED <<mcpClient, clients>>
           ELSE /\ StartDiscovery(settings)
                /\ chats' = [chats EXCEPT ![c] = [chat EXCEPT !.pc = "connect",
                                                              !.client = mcpClient']]

\* a loadTransactionSummary without the check of isLoading
RequestSummaryUnguarded(c) ==
    LET chat == [IdleChat EXCEPT !.action = "getTransactionSummary",
                                 !.signature = transactionSignature]
        prompt == getTransactionSummaryPrompt(chat.signature, settings[1].responseLanguage)
    IN  /\ FreeChat(c)
        /\ isLoading' = TRUE
        /\ chats' = [chats EXCEPT ![c] =
              IF genAI = None
              THEN sendResponse(chat, Failure("Gemini AI not initialized. Please configure your API key."))
              ELSE [chat EXCEPT !.pc = "summary", !.context = prompt,
                                !.contents = <<[role |-> "user", text |-> prompt]>>,
                                !.modelCalls = 1,
                                !.generationConfig = Some(GenerationConfig(settings[1]))]]
        /\ UNCHANGED <<store, remoteTools, background, ops, conversationHistory,
                       transactionSignature, chatPanel>>

\* loadTransactionSummary sets isLoading unless it is set (part_001 line 299)
\* and sends the request (part_001 lines 298-320); the
\* listener (lines 583-603) calls generateTransactionSummary, which runs to
\* its await (lines 259-279)
RequestSummary(c) ==
    LET chat == [IdleChat EXCEPT !.action = "getTransactionSummary",
                                 !.signature = transactionSignature]
        prompt == getTransactionSummaryPrompt(chat.signature, settings[1].responseLanguage)
    IN  /\ FreeChat(c)
        /\ ~isLoading
        /\ isLoading' = TRUE
        /\ chats' = [chats EXCEPT ![c] =
              IF genAI = None
              THEN sendResponse(chat, Failure("Gemini AI not initialized. Please configure your API key."))
              ELSE [chat EXCEPT !.pc = "summary", !.context = prompt,
                                !.contents = <<[role |-> "user", text |-> prompt]>>,
                                !.modelCalls = 1,
                                !.generationConfig = Some(GenerationConfig(settings[1]))]]
        /\ UNCHANGED <<store, remoteTools, background, ops, conversationHistory,
                       transactionSignature, chatPanel>>

\* the lazy loadMCPTools of a chat: connect resolves or rejects
ChatConnected(c, ok) ==
    LET chat == chats[c]
    IN  /\ chat.pc = "connect"
        /\ clients' = SetState(chat.client, IF ok THEN "connected" ELSE "failed")
        /\ UNCHANGED <<store, remoteTools, settings, genAI, mcpClient, mcpTools, geminiTools,
                       isInitialized, ops, conversationHistory, session>>
        /\ IF ok /\ mcpClient # 0
           THEN chats' = [chats EXCEPT ![c].pc = "list", ![c].client = mcpClient]
           ELSE chats' = [chats EXCEPT ![c] = FirstCall(chat, settings, geminiTools)]

\* the lazy loadMCPTools of a chat: listTools resolves or rejects
ChatListed(c, ok) ==
    LET chat == chats[c]
    IN  /\ chat.pc = "list"
        /\ ok => clients[chat.client].state # "failed"
        /\ IF ok THEN Discovered(remoteTools) ELSE UNCHANGED <<mcpTools, geminiTools>>
        /\ chats' = [chats EXCEPT ![c] = FirstCall(chat, settings, geminiTools')]
        /\ UNCHANGED <<store, remoteTools, settings, genAI, mcpClient, isInitialized,
                       clients, ops, conversationHistory, session>>

\* the toolResults entries (lines 414-423)
ResultEntry(call, payload) == [tool |-> call.name, result |-> Some(payload), error |-> None]
ErrorEntry(call, message) == [tool |-> call.name, result |-> None, error |-> Some(message)]

\* a second generateContent that replays the transcript before the follow-up
\* prompt, as the first one does
FinalCallReplaying(chat, s, schema) ==
    [chat EXCEPT !.pc = "model2",
                 !.finalContents = BuildContents(chat.history,
                                                 FinalPrompt(chat.context, s[1].responseLanguage,
                                                             chat.results)),
                 !.finalTools = schema, !.modelCalls = 2, !.client = 0,
                 !.generationConfig = Some(GenerationConfig(s[1]))]

\* lines 427-468: the follow-up prompt and the second generateContent
FinalCall(chat, s, schema) ==
    [chat EXCEPT !.pc = "model2",
                 !.finalContents = <<[role |-> "user",
                                      text |-> FinalPrompt(chat.context, s[1].responseLanguage,
                                                           chat.results)]>>,
                 !.finalTools = schema, !.modelCalls = 2, !.client = 0,
                 !.generationConfig = Some(GenerationConfig(s[1]))]

\* a loop that stops after its first invocation
RunToolsFirstOnly(chat, client, s, schema) ==
    IF Len(chat.results) = Len(chat.calls) \/ Len(chat.results) >= 1
    THEN FinalCall(chat, s, schema)
    ELSE IF client = 0
    THEN FinalCall([chat EXCEPT !.results = Append(@, ErrorEntry(chat.calls[Len(@) + 1],
                                                               "MCP client not initialized")),
                                !.toolCalls = @ + 1],
                   s, schema)
    ELSE [chat EXCEPT !.pc = "tool", !.client = client, !.toolCalls = @ + 1]

\* the loop of lines 409-425 from the next call on: callMCPTool throws at
\* once while this.mcpClient is null (lines 187-189), else awaits callTool
RECURSIVE RunTools(_, _, _, _)
RunTools(chat, client, s, schema) ==
    IF Len(chat.results) = Len(chat.calls) THEN FinalCall(chat, s, schema)
    ELSE IF client = 0
    THEN RunTools([chat EXCEPT !.results = Append(@, ErrorEntry(chat.calls[Len(@) + 1],
                                                               "MCP client not initialized")),
                               !.toolCalls = @ + 1],
                  client, s, schema)
    ELSE [chat EXCEPT !.pc = "tool", !.client = client, !.toolCalls = @ + 1]

\* the first generateContent resolves or rejects (lines 387-425, 480-489)
ModelReplied(c, reply) ==
    LET chat == chats[c]
    IN  /\ chat.pc = "model1"
        /\ reply \in ModelReplies(chat.message, chat.tools)
        /\ chats' = [chats EXCEPT ![c] =
              IF ~reply.ok
              THEN sendResponse(chat, Failure("model call failed"))
              ELSE IF reply.calls = <<>>
              THEN sendResponse(chat, Success(TextOf(reply, "")))
              ELSE RunTools([chat EXCEPT !.calls = reply.calls], mcpClient, settings, geminiTools)]
        /\ UNCHANGED <<store, remoteTools, background, ops, conversationHistory, session>>

\* a loop without the try/catch of lines 412-424: a rejected callTool is
\* rethrown by the catch of lines 486-489
ToolRepliedNoCatch(c, reply) ==
    /\ chats[c].pc = "tool"
    /\ reply \in ToolReplies(chats[c].client)
    /\ chats' = [chats EXCEPT ![c] =
          IF ~reply.ok
          THEN sendResponse(chats[c], Failure(reply.value))
          ELSE RunTools([chats[c] EXCEPT !.results =
                            Append(@, ResultEntry(chats[c].calls[Len(@) + 1], reply.value))],
                        mcpClient, settings, geminiTools)]
    /\ UNCHANGED <<store, remoteTools, background, ops, conversationHistory, session>>

\* callTool resolves or rejects (lines 412-425), and the loop goes on
ToolReplied(c, reply) ==
    LET chat == chats[c]
        call == chat.calls[Len(chat.results) + 1]
        entry == IF reply.ok THEN ResultEntry(call, reply.value) ELSE ErrorEntry(call, reply.value)
    IN  /\ chat.pc = "tool"
        /\ reply \in ToolReplies(chat.client)
        /\ chats' = [chats EXCEPT ![c] =
              RunTools([chat EXCEPT !.results = Append(@, entry)], mcpClient, settings, geminiTools)]
        /\ UNCHANGED <<store, remoteTools, background, ops, conversationHistory, session>>

\* an exchange that answers with the text of its first response when the
\* follow-up call succeeds
FinalRepliedFirstText(c, reply) ==
    /\ chats[c].pc = "model2"
    /\ reply \in FinalModelReplies(chats[c].message, chats[c].finalTools)
    /\ chats' = [chats EXCEPT ![c] =
          IF ~reply.ok
          THEN sendResponse(chats[c], Failure("model call failed"))
          ELSE sendResponse(chats[c], Success(AnswerTo(chats[c].message)))]
    /\ UNCHANGED <<store, remoteTools, background, ops, conversationHistory, session>>

\* the second generateContent resolves or rejects (lines 464-489)
FinalReplied(c, reply) ==
    LET chat == chats[c]
    IN  /\ chat.pc = "model2"
        /\ reply \in FinalModelReplies(chat.message, chat.finalTools)
        /\ chats' = [chats EXCEPT ![c] =
              IF ~reply.ok
              THEN sendResponse(chat, Failure("model call failed"))
              ELSE sendResponse(chat, Success(TextOf(reply, "")))]
        /\ UNCHANGED <<store, remoteTools, background, ops, conversationHistory, session>>

\* a push of the assistant's turn before the user's
TurnsAnswerFirst(message, response) ==
    <<[role |-> "assistant", content |-> response], [role |-> "user", content |-> message]>>
\* sendChatMessage resumes with the response (part_001 lines 576-600)
Turns(message, response) ==
    <<[role |-> "user", content |-> message], [role |-> "assistant", content |-> response]>>
\* a sendChatMessage that pushes the assistant's turn only
ReceiveResponseAnswerOnly(history, chat) ==
    IF chat.response.success
    THEN Append(history, [role |-> "assistant", content |-> chat.response.response])
    ELSE history
\* a sendChatMessage that pushes the user's turn before it has a response
ReceiveResponseKeepQuestion(history, chat) ==
    IF chat.response.success THEN history \o Turns(chat.message, chat.response.response)
    ELSE Append(history, [role |-> "user", content |-> chat.message])
ReceiveResponse(history, chat) ==
    IF chat.response.success THEN history \o Turns(chat.message, chat.response.response)
    ELSE history
\* a sendChatMessage that writes the transcript it sent followed by the new
\* turns
ChatReceiveOntoSent(c) ==
    /\ chats[c].pc = "responded"
    /\ chats[c].action = "chatWithTransaction"
    /\ conversationHistory' =
          IF chatPanel /\ chats[c].response.success
          THEN chats[c].history \o Turns(chats[c].message, chats[c].response.response)
          ELSE conversationHistory
    /\ chats' = [chats EXCEPT ![c] = [IdleChat EXCEPT !.pc = "done", !.action = chats[c].action,
                                                       !.message = chats[c].message,
                                                       !.response = chats[c].response,
                                                       !.sent = chats[c].sent]]
    /\ UNCHANGED <<store, remoteTools, background, ops, session>>

\* without a chat panel (resetUI has removed it and the user has not opened
\* a new one) addChatMessage throws at part_001 line 604, before the push and
\* again in the catch block
ChatReceive(c) ==
    /\ chats[c].pc = "responded"
    /\ chats[c].action = "chatWithTransaction"
    /\ conversationHistory' = IF chatPanel THEN ReceiveResponse(conversationHistory, chats[c])
                              ELSE conversationHistory
    /\ chats' = [chats EXCEPT ![c] = DoneChat(chats[c])]
    /\ UNCHANGED <<store, remoteTools, background, ops, session>>

\* the user opens the chat (showChatPanel, part_001 lines 443-480)
ShowChatPanel ==
    /\ ~chatPanel
    /\ chatPanel' = TRUE
    /\ UNCHANGED <<store, remoteTools, background, ops, chats, conversationHistory,
                   transactionSignature, isLoading>>

\* a callback that sets the new signature and rebuilds the panels but keeps
\* the transcript
NavigateKeepTranscript(newSignature) ==
    /\ newSignature # transactionSignature
    /\ transactionSignature' = newSignature
    /\ chatPanel' = FALSE
    /\ UNCHANGED <<store, remoteTools, background, ops, chats, isLoading, conversationHistory>>

\* the page navigates to another transaction: the MutationObserver callback
\* of observePageChanges (part_001 lines 107-117) and resetUI (675-689)
Navigate(newSignature) ==
    /\ newSignature # transactionSignature
    /\ transactionSignature' = newSignature
    /\ chatPanel' = FALSE
    /\ conversationHistory' = <<>>
    /\ UNCHANGED <<store, remoteTools, background, ops, chats, isLoading>>

\* generateContent of generateTransactionSummary resolves or rejects (lines
\* 267-293); the call declares no tools
SummaryReplied(c, reply) ==
    LET chat == chats[c]
    IN  /\ chat.pc = "summary"
        /\ reply \in ModelReplies(chat.message, None)
        /\ chats' = [chats EXCEPT ![c] =
              IF ~reply.ok
              THEN sendResponse(chat, Failure("model call failed"))
              ELSE sendResponse(chat, Success(TextOf(reply, "Unable to generate summary")))]
        /\ UNCHANGED <<store, remoteTools, background, ops, conversationHistory, session>>

\* a loadTransactionSummary that records the summary as an assistant turn
SummaryReceiveIntoTranscript(c) ==
    /\ chats[c].pc = "responded"
    /\ chats[c].action = "getTransactionSummary"
    /\ isLoading' = FALSE
    /\ conversationHistory' =
          IF chats[c].response.success
          THEN Append(conversationHistory,
                      [role |-> "assistant", content |-> chats[c].response.response])
          ELSE conversationHistory
    /\ chats' = [chats EXCEPT ![c] = DoneChat(chats[c])]
    /\ UNCHANGED <<store, remoteTools, background, ops, transactionSignature, chatPanel>>

\* loadTransactionSummary resumes with the response (part_001 lines 321-349)
SummaryReceive(c) ==
    /\ chats[c].pc = "responded"
    /\ chats[c].action = "getTransactionSummary"
    /\ isLoading' = FALSE
    /\ chats' = [chats EXCEPT ![c] = DoneChat(chats[c])]
    /\ UNCHANGED <<store, remoteTools, background, ops, conversationHistory,
                   transactionSignature, chatPanel>>

\* a getDiagnostics whose mcpToolsLoaded tests only that a list is cached
getDiagnosticsAnyList ==
    [assistantCreated |-> TRUE,
     assistantInitialized |-> isInitialized,
     settingsLoaded |-> settings # None,
     geminiInitialized |-> genAI # None,
     mcpToolsLoaded |-> mcpTools # None]

\* getDiagnostics (lines 508-516)
getDiagnostics ==
    [assistantCreated |-> TRUE,
     assistantInitialized |-> isInitialized,
     settingsLoaded |-> settings # None,
     geminiInitialized |-> genAI # None,
     mcpToolsLoaded |-> mcpTools # None /\ Len(mcpTools[1]) > 0]

\* the requests the listener answers before it returns (lines 552-578, 584-587,
\* 608-611, 666-672): diagnostics, ping, a summary request without a
\* signature, a chat request without a signature or a message, and any
\* action it does not know
Actions == {"diagnostics", "ping", "getTransactionSummary", "chatWithTransaction", "export"}
Requests == [action : Actions, signature : {"", "SIG1"}, message : {"", "q1"}]
AnsweredAtOnce(request) ==
    \/ request.action \notin {"getTransactionSummary", "chatWithTransaction"}
    \/ request.action = "getTransactionSummary" /\ ~Truthy(request.signature)
    \/ request.action = "chatWithTransaction"
          /\ (~Truthy(request.signature) \/ ~Truthy(request.message))
\* a listener that hands a summary or chat request to the model whatever
\* its fields
ListenerNoValidation(c, request) ==
    LET chat == [IdleChat EXCEPT !.action = request.action, !.signature = request.signature,
                                 !.message = request.message]
    IN  /\ FreeChat(c)
        /\ AnsweredAtOnce(request)
        /\ chats' = [chats EXCEPT ![c] =
              IF request.action = "diagnostics"
              THEN sendResponse(chat, [Success("") EXCEPT !.diagnostics = Some(getDiagnostics)])
              ELSE IF request.action = "ping"
              THEN sendResponse(chat, Success("Extension is active (simplified mode)"))
              ELSE IF request.action \in {"getTransactionSummary", "chatWithTransaction"}
              THEN sendResponse([chat EXCEPT !.modelCalls = 1], Success(AnswerTo(chat.message)))
              ELSE sendResponse(chat, Failure("Unknown action: " \o request.action))]
        /\ UNCHANGED <<store, remoteTools, background, ops, conversationHistory, session>>
Listener(c, request) ==
    LET chat == [IdleChat EXCEPT !.action = request.action, !.signature = request.signature,
                                 !.message = request.message]
    IN  /\ FreeChat(c)
        /\ AnsweredAtOnce(request)
        /\ chats' = [chats EXCEPT ![c] =
              IF request.action = "diagnostics"
              THEN sendResponse(chat, [Success("") EXCEPT !.diagnostics = Some(getDiagnostics)])
              ELSE IF request.action = "ping"
              THEN sendResponse(chat, Success("Extension is active (simplified mode)"))
              ELSE IF request.action = "getTransactionSummary"
              THEN sendResponse(chat, Failure("Transaction signature is required"))
              ELSE IF request.action = "chatWithTransaction"
              THEN sendResponse(chat, Failure("Transaction signature and message are required"))
              ELSE sendResponse(chat, Failure("Unknown action: " \o request.action))]
        /\ UNCHANGED <<store, remoteTools, background, ops, conversationHistory, session>>

\* the sender of such a request has its response (nothing of the request
\* is kept)
Answered(c) ==
    /\ chats[c].pc = "responded"
    /\ AnsweredAtOnce(chats[c])
    /\ chats' = [chats EXCEPT ![c] = IdleChat]
    /\ UNCHANGED <<store, remoteTools, background, ops, conversationHistory, session>>

(* --------------------------- specification ---------------------------- *)
StoredSettings == [geminiApiKey : ApiKeys, mcpUrl : McpUrls, responseLanguage : StoredLanguages]

\* the steps of the registry operations in flight
RegistrySteps ==
    \/ \E o \in OpIds : OpSettingsLoaded(o)
    \/ \E o \in OpIds, ok \in BOOLEAN : OpConnected(o, ok)
    \/ \E o \in OpIds, ok \in BOOLEAN : OpListed(o, ok)

\* the lazy loadMCPTools of the chat requests
ChatDiscoverySteps ==
    \/ \E c \in ChatIds, ok \in BOOLEAN : ChatConnected(c, ok)
    \/ \E c \in ChatIds, ok \in BOOLEAN : ChatListed(c, ok)

\* the model and tool replies of an exchange, and its response
ChatReplySteps ==
    \/ \E c \in ChatIds : \E reply \in ModelReplies(chats[c].message, chats[c].tools) :
          ModelReplied(c, reply)
    \/ \E c \in ChatIds, reply \in UNION {ToolReplies(k) : k \in DOMAIN clients} :
          ToolReplied(c, reply)
    \/ \E c \in ChatIds : \E reply \in FinalModelReplies(chats[c].message, chats[c].finalTools) :
          FinalReplied(c, reply)
    \/ \E c \in ChatIds : ChatReceive(c)

\* The chat exchanges of a background that starts up and is left alone (a
\* chat request starts no discovery there: init has started one whenever the
\* settings hold an endpoint, and the client it constructs stays).
NextExchange ==
    \/ RegistrySteps
    \/ ShowChatPanel
    \/ \E c \in ChatIds, q \in Questions : SendChat(c, q)
    \/ ChatReplySteps
SpecExchange == InitExchange /\ [][NextExchange]_vars

\* The registry under reloadMCPTools requests while the tool service
\* changes the tools it serves.
NextReload ==
    \/ RegistrySteps
    \/ \E o \in OpIds : RequestReloadMCPTools(o)
    \/ \E new \in RemoteToolLists : RemoteChange(new)
SpecReload == Init /\ [][NextReload]_vars

\* The background under settings changes, reload requests, chat requests and
\* summary requests (whose model calls stay unanswered: the replies do not
\* touch the background's fields), with a tool service that serves tools;
\* from startup, and from the background that has lost its client.
NextRegistry ==
    \/ RegistrySteps
    \/ \E o \in OpIds, new \in StoredSettings : SaveSettings(o, new)
    \/ \E o \in OpIds : RequestReloadSettings(o)
    \/ \E o \in OpIds : RequestReloadMCPTools(o)
    \/ ShowChatPanel
    \/ \E c \in ChatIds : SendChat(c, "q1")
    \/ ChatDiscoverySteps
    \/ \E c \in ChatIds : RequestSummary(c)
InitRegistry == (Init /\ remoteTools # <<>>) \/ Detached
SpecRegistry == InitRegistry /\ [][NextRegistry]_vars

\* One page of the content script over a background without a tool
\* endpoint: the user opens the chat, asks, asks again before the answer is
\* there, and requests summaries, and the listener also gets the requests it
\* answers at once.
NextSession ==
    \/ \E o \in OpIds : OpSettingsLoaded(o)
    \/ ShowChatPanel
    \/ \E c \in RequestIds, q \in Questions : SendChat(c, q)
    \/ \E c \in RequestIds : RequestSummary(c)
    \/ \E c \in RequestIds, request \in Requests : Listener(c, request)
    \/ \E c \in RequestIds : \E reply \in ModelReplies(chats[c].message, chats[c].tools) :
          ModelReplied(c, reply)
    \/ \E c \in RequestIds : \E reply \in ModelReplies(chats[c].message, None) :
          SummaryReplied(c, reply)
    \/ \E c \in RequestIds : ChatReceive(c)
    \/ \E c \in RequestIds : SummaryReceive(c)
    \/ \E c \in RequestIds : Answered(c)
InitSession == Init /\ store.mcpUrl = "" /\ remoteTools = <<>>
SpecSession == InitSession /\ [][NextSession]_vars

\* The prompts of the chat and summary requests of a page, for every stored
\* language.
NextPrompt ==
    \/ \E o \in OpIds : OpSettingsLoaded(o)
    \/ ShowChatPanel
    \/ \E c \in RequestIds, q \in Questions : SendChat(c, q)
    \/ \E c \in RequestIds : RequestSummary(c)
SpecPrompt == InitPrompt /\ [][NextPrompt]_vars

\* The discovery of init over every list of tool descriptors.
SpecConvert == InitConvert /\ [][RegistrySteps]_vars

\* The listener's immediate answers while the background starts up, with any
\* stored settings and tool service.
NextListener ==
    \/ RegistrySteps
    \/ \E c \in RequestIds, request \in Requests : Listener(c, request)
    \/ \E c \in RequestIds : Answered(c)
SpecListener == Init /\ [][NextListener]_vars

\* One exchange of a page over a started background with tools, with a
\* transcript or without, while the user navigates between transactions and
\* requests summaries.
NextThread ==
    \/ ShowChatPanel
    \/ \E sig \in Signatures : Navigate(sig)
    \/ \E q \in Questions : SendChat(1, q)
    \/ ChatReplySteps
    \/ \E c \in RequestIds : RequestSummary(c)
    \/ \E c \in RequestIds : \E reply \in ModelReplies(chats[c].message, None) :
          SummaryReplied(c, reply)
    \/ \E c \in RequestIds : SummaryReceive(c)
SpecThread == Started /\ [][NextThread]_vars

(* ----------------------------- properties ----------------------------- *)
\* chat c receives its response in this step
Received(c) == chats[c].pc = "responded" /\ chats'[c].pc = "done"
\* chat c is requested in this step
Requested(c) == chats[c].pc = "idle" /\ chats'[c].pc # "idle"

\* C1: a chat exchange whose first model response holds no function call
\* is answered after exactly one model call and no tool invocation, and
\* when its response is received the transcript grows by exactly the
\* user's question followed by the assistant's answer.
C1_NoToolCallExchange ==
    [][\A c \in ChatIds :
          (Received(c) /\ chats[c].response.success /\ chats[c].calls = <<>>)
          => /\ chats[c].modelCalls = 1
             /\ chats[c].toolCalls = 0
             /\ Len(conversationHistory') = Len(conversationHistory) + 2
             /\ conversationHistory' = conversationHistory \o
                   <<[role |-> "user", content |-> chats[c].message],
                     [role |-> "assistant", content |-> chats[c].response.response]>>]_vars

C1_Witness ==
    \E c \in ChatIds :
        /\ chats[c].pc = "done"
        /\ Len(conversationHistory) = 2
        /\ conversationHistory[1] = [role |-> "user", content |-> "q1"]
        /\ conversationHistory[2] = [role |-> "assistant", content |-> "a1"]
        /\ geminiTools = None

\* the progress of the tool phase of one exchange: the outcomes so far are
\* those of the first requests, in order, each invocation was issued after
\* the outcome of the one before it, and the follow-up call is made once,
\* after all of them
ToolPhaseInOrder(chat) ==
    /\ Len(chat.results) <= Len(chat.calls)
    /\ \A i \in DOMAIN chat.results : chat.results[i].tool = chat.calls[i].name
    /\ chat.toolCalls = Len(chat.results) + (IF chat.pc = "tool" THEN 1 ELSE 0)
    /\ chat.pc = "tool" => Len(chat.results) < Len(chat.calls) /\ chat.modelCalls = 1
    /\ (chat.pc \in {"model2", "responded"} /\ chat.calls # <<>>)
          => /\ Len(chat.results) = Len(chat.calls)
             /\ chat.toolCalls = Len(chat.calls)
             /\ chat.modelCalls = 2

\* C2: an exchange whose first model response requests N >= 1 tool calls
\* issues exactly N invocations, one after another and in request order,
\* records the i-th outcome for the i-th request, makes exactly one follow-up
\* model call after all N outcomes, and its transcript grows by exactly the
\* user's question and the assistant's answer.
C2_ToolCallExchange ==
    [][\A c \in ChatIds :
          /\ ToolPhaseInOrder(chats[c])
          /\ ToolPhaseInOrder(chats'[c])
          /\ (chats[c].pc = "model1" /\ chats'[c].calls # <<>>)
                => chats'[c].pc \in {"tool", "model2"}
          /\ (Received(c) /\ chats[c].response.success /\ chats[c].calls # <<>>)
                => /\ Len(conversationHistory') = Len(conversationHistory) + 2
                   /\ conversationHistory' = conversationHistory \o
                         <<[role |-> "user", content |-> chats[c].message],
                           [role |-> "assistant",
                            content |-> chats[c].response.response]>>]_vars

C2_Witness ==
    \E c \in ChatIds :
        /\ chats[c].pc = "responded"
        /\ chats[c].response.success
        /\ Len(chats[c].calls) = 2
        /\ chats[c].toolCalls = 2
        /\ chats[c].modelCalls = 2
        /\ chats[c].results[1].tool = "get_account"
        /\ chats[c].results[2].tool = "get_solana_transaction"
        /\ chats[c].results[1].result # None

\* the messages a failed outcome can carry: that of a rejected callTool, or
\* that of callMCPTool without a client
FailureMessages == ToolErrors \cup {"MCP client not initialized"}
OutcomeRecorded(entry) ==
    \/ entry.error = None /\ entry.result # None
    \/ entry.result = None /\ entry.error # None /\ entry.error[1] \in FailureMessages

\* C3: a failing tool invocation, a missing tool client included, never
\* aborts the exchange: every requested call is still attempted, each failure
\* is recorded as an outcome carrying its message, and an exchange whose model
\* calls succeed returns a success (the only error after the first model call
\* is that of the follow-up model call).
C3_ToolFailureNeverAborts ==
    [][\A c \in ChatIds :
          /\ (chats[c].pc \in {"model1", "tool"} /\ chats'[c] # chats[c]
                 /\ chats'[c].calls # <<>>)
                => /\ chats'[c].pc \in {"tool", "model2"}
                   /\ \A i \in DOMAIN chats'[c].results : OutcomeRecorded(chats'[c].results[i])
                   /\ chats[c].pc = "tool"
                         => /\ Len(chats'[c].results) = Len(chats[c].results) + 1
                            /\ chats'[c].results[Len(chats'[c].results)].error
                                  \in {None} \cup {Some(e) : e \in ToolErrors}
                   /\ (chats[c].pc = "model1" /\ mcpClient = 0)
                         => /\ chats'[c].pc = "model2"
                            /\ \A i \in DOMAIN chats'[c].calls :
                                  chats'[c].results[i].error = Some("MCP client not initialized")
                   /\ chats'[c].pc = "model2"
                         => /\ Len(chats'[c].results) = Len(chats'[c].calls)
                            /\ chats'[c].toolCalls = Len(chats'[c].calls)
          /\ (chats[c].pc = "model2" /\ chats'[c] # chats[c])
                => /\ chats'[c].pc = "responded"
                   /\ chats'[c].response.success
                         \/ chats'[c].response.error = "model call failed"]_vars

C3_Witness ==
    \E c \in ChatIds :
        /\ chats[c].pc = "responded"
        /\ chats[c].response.success
        /\ Len(chats[c].results) = 2
        /\ chats[c].results[1].error = Some("tool failed")
        /\ chats[c].results[2].error = None
        /\ chats[c].results[2].result = Some("payload1")

\* the tool names of a text, in the order they occur in it
ToolsNamedIn(text) == SelectSeq(text, LAMBDA t : t \in ToolNames)

\* C4: the follow-up prompt serializes every tool outcome in request order:
\* the tool name and the payload of each successful call, the tool name and
\* the failure message of each failed call.
\* SpecExchange violates it: line 429 prints result.result for every entry,
\* which is undefined for a failed call, and the error field is not printed.
C4_FollowUpSerializesOutcomes ==
    \A c \in ChatIds :
        chats[c].pc = "model2"
        => LET text == chats[c].finalContents[1].text
           IN  /\ ToolsNamedIn(text) = [i \in DOMAIN chats[c].calls |-> chats[c].calls[i].name]
               /\ \A i \in DOMAIN chats[c].results :
                     /\ chats[c].results[i].result # None
                           => chats[c].results[i].result[1] \in Tokens(text)
                     /\ chats[c].results[i].error # None
                           => chats[c].results[i].error[1] \in Tokens(text)

\* C6: when a model call of a chat exchange fails, first or follow-up, the
\* chat operation answers with an error and the exchange leaves the transcript
\* as it was: no step of it, the receipt of the error included, appends a
\* turn.
C6_ModelFailureLeavesTranscript ==
    [][\A c \in ChatIds :
          /\ (chats[c].pc \in {"model1", "model2"} /\ chats'[c] # chats[c]
                 /\ chats'[c].pc = "responded" /\ ~chats'[c].response.success)
                => /\ chats'[c].response.error = "model call failed"
                   /\ conversationHistory' = conversationHistory
          /\ (Received(c) /\ ~chats[c].response.success)
                => conversationHistory' = conversationHistory
          /\ (chats'[c] # chats[c] /\ ~Received(c))
                => conversationHistory' = conversationHistory]_vars

C6_Witness ==
    \E c \in ChatIds :
        /\ chats[c].pc = "done"
        /\ chats[c].message = "q1"
        /\ chats[c].response = Failure("model call failed")
        /\ conversationHistory = <<>>
        /\ geminiTools # None

\* the registry is not ready for a request, that is it holds no schema (line
\* 345), because no endpoint is configured, its discovery failed, or its
\* discovery listed no tool
NoEndpoint == settings # None /\ ~Truthy(settings[1].mcpUrl)
DiscoveryFailed ==
    /\ mcpClient # 0
    /\ mcpTools = None
    /\ ~DiscoveryInFlight
ZeroTools == mcpTools = Some(<<>>)
RegistryNotReady == geminiTools = None /\ (NoEndpoint \/ DiscoveryFailed \/ ZeroTools)

\* C7: while the registry is not ready (no endpoint, failed discovery, or no
\* tool listed), a chat request to a configured model makes its first model
\* call without a tool schema and without touching the registry, and that
\* call's text is returned as a success: no tool is invoked and the only
\* error is that of the model call itself.
C7_ChatWithoutTools ==
    [][\A c \in ChatIds :
          /\ (Requested(c) /\ genAI # None /\ RegistryNotReady)
                => /\ chats'[c].pc = "model1"
                   /\ chats'[c].tools = None
                   /\ chats'[c].modelCalls = 1
                   /\ UNCHANGED registry
          /\ (chats[c].pc = "model1" /\ chats[c].tools = None /\ chats'[c] # chats[c])
                => /\ chats'[c].pc = "responded"
                   /\ chats'[c].modelCalls = 1
                   /\ chats'[c].toolCalls = 0
                   /\ \/ chats'[c].response = Failure("model call failed")
                      \/ chats'[c].response \in {Success(AnswerTo(chats[c].message)),
                                                 Success("")}]_vars

C7_Witness ==
    \E c \in ChatIds :
        /\ chats[c].pc = "responded"
        /\ chats[c].tools = None
        /\ chats[c].response = Success("a1")
        /\ DiscoveryFailed
        /\ clients[mcpClient].state = "failed"

\* the loaded settings hold no model credential
NoCredential == settings # None /\ ~Truthy(settings[1].geminiApiKey)
ConfigurationErrors ==
    {"Gemini AI not initialized", "Gemini AI not initialized. Please configure your API key."}

\* C5: while the loaded settings hold no model credential, a summary or chat
\* request fails with a configuration error, and no model call and no
\* tool-service call is made for it.
\* SpecRegistry violates it: initializeGemini (lines 94-97) keeps the model
\* client of a credential that was removed, and lines 260 and 340 test that
\* client.
C5_NoCredentialNoCall ==
    [][\A c \in ChatIds :
          (Requested(c) /\ NoCredential)
          => /\ chats'[c].pc = "responded"
             /\ ~chats'[c].response.success
             /\ chats'[c].response.error \in ConfigurationErrors
             /\ chats'[c].modelCalls = 0
             /\ chats'[c].toolCalls = 0
             /\ UNCHANGED registry]_vars

\* a reloadMCPTools request is handled in this step
ReloadToolsRequested ==
    \E o \in OpIds :
        /\ ops[o].pc = "idle"
        /\ ops'[o].kind = "reloadMCPTools" \/ ops'[o].pc = "done"

\* C8: once tools have been discovered, no init, reloadSettings, summary or
\* chat step contacts the tool service for a connection or a discovery or
\* changes the cached tool list and schema: only a reloadMCPTools request
\* does.
\* SpecRegistry violates it from the background that has lost its client:
\* loadMCPTools tests the client (line 114), not the tools, and reloadSettings
\* connects again.
C8_DiscoveredToolsStay ==
    [][(mcpTools # None /\ geminiTools # None /\ ~DiscoveryInFlight /\ ~ReloadToolsRequested)
        => /\ UNCHANGED registry
           /\ ~DiscoveryInFlight']_vars

\* a reloadMCPTools operation completes in this step
ReloadToolsCompleted(o) ==
    \/ ops[o].kind = "reloadMCPTools" /\ ops[o].pc # "idle" /\ ops'[o].pc = "done"
    \/ ops[o].pc = "idle" /\ ops'[o].pc = "done"

\* C9: reloadMCPTools on a ready registry discards the client, the tool list
\* and the schema and discovers again with a new client; when it completes
\* without the tool service having changed its tools meanwhile, the list is
\* the one the service serves (or none, when the discovery failed) and the
\* schema is its conversion, as after a discovery from scratch, whether it
\* is the first reload or a later one.
C9_ReloadToolsRediscovers ==
    [][/\ (ReloadToolsRequested /\ mcpTools # None /\ mcpClient # 0)
          => /\ mcpTools' = None
             /\ geminiTools' = None
             /\ mcpClient' # mcpClient
             /\ \/ ~Truthy(settings[1].mcpUrl) /\ mcpClient' = 0
                \/ /\ Truthy(settings[1].mcpUrl)
                   /\ clients' = Append(clients, NewClient(settings[1].mcpUrl))
                   /\ mcpClient' = Len(clients')
       /\ \A o \in OpIds :
             (ReloadToolsCompleted(o) /\ ~ops[o].changed)
             => /\ mcpTools' \in {None, Some(remoteTools')}
                /\ geminiTools' = convertMCPToolsToGemini(mcpTools')
                /\ (mcpTools' # mcpTools) => mcpTools' = Some(remoteTools')]_vars

C9_Witness ==
    /\ ops[2].pc = "done"
    /\ ops[3].pc = "done"
    /\ ~DiscoveryInFlight
    /\ Len(clients) = 3
    /\ mcpClient = 3
    /\ remoteTools = <<>>
    /\ mcpTools = Some(<<>>)
    /\ geminiTools = None

\* C10: when a reloadSettings completes, the model client is the one of the
\* stored credential, the tool-service client is one of the stored endpoint,
\* and the transcript is as it was.
\* SpecRegistry violates it: loadMCPTools returns at line 114 while a client
\* exists (and at line 109 keeps the client of a removed endpoint), and
\* initializeGemini keeps the client of a removed credential.
C10_ReloadSettingsReinitializes ==
    [][\A o \in OpIds :
          (ops[o].kind = "reloadSettings" /\ ops'[o].pc = "done"
              /\ settings' = Some(SettingsFrom(store')))
          => /\ genAI' = (IF Truthy(store'.geminiApiKey)
                          THEN Some([apiKey |-> store'.geminiApiKey]) ELSE None)
             /\ IF Truthy(store'.mcpUrl)
                THEN mcpClient' # 0 /\ clients'[mcpClient'].url = store'.mcpUrl
                ELSE mcpClient' = 0
             /\ conversationHistory' = conversationHistory]_vars

\* the page shows another transaction after this step
Navigated == transactionSignature' # transactionSignature

\* C11: a navigation to a different transaction resets the page's session:
\* after it the transcript is empty and the subject is the new signature,
\* while the background's tool client and its cached tools (the list and the
\* schema converted from it) are what they were.
C11_NavigationResets ==
    [][Navigated
          => /\ conversationHistory' = <<>>
             /\ transactionSignature' \in Signatures
             /\ mcpClient' = mcpClient
             /\ clients' = clients
             /\ mcpTools' = mcpTools
             /\ geminiTools' = geminiTools]_vars
\* the page has left SIG1, where an exchange was answered, and the transcript
\* is empty while the client and the two tools are still cached
C11_Witness ==
    /\ transactionSignature = "SIG2"
    /\ conversationHistory = <<>>
    /\ chats[1].pc = "done"
    /\ chats[1].response.success
    /\ mcpClient = 1
    /\ mcpTools = Some(<<ToolTx, ToolAcct>>)

\* request c is a chat that is not answered to the content script yet
PendingChat(c) ==
    /\ chats[c].action = "chatWithTransaction"
    /\ chats[c].pc \in {"connect", "list", "model1", "tool", "model2", "responded"}
    /\ ~AnsweredAtOnce(chats[c])

\* C12: a chat issued while another one is pending is neither queued nor
\* rejected: its model call is started in the step that issues it; a step of
\* one request changes no other request; and each successful chat appends its
\* two turns to the transcript as it is when its response is received, so the
\* transcript is in completion order.
C12_OverlappingChats ==
    [][\A c \in RequestIds :
          /\ (chats'[c] # chats[c]) => \A d \in RequestIds \ {c} : chats'[d] = chats[d]
          /\ (Requested(c) /\ PendingChat(c)' /\ genAI # None
                 /\ \E d \in RequestIds \ {c} : PendingChat(d))
             => chats'[c].pc = "model1" /\ chats'[c].modelCalls = 1
          /\ (Received(c) /\ PendingChat(c) /\ chats[c].response.success)
             => conversationHistory' =
                   conversationHistory \o Turns(chats[c].message, chats[c].response.response)]_vars
\* q1 was sent with an empty transcript and has its answer in flight, while
\* q2, issued in the meantime, has appended its turns
C12_Witness ==
    /\ chats[1].pc = "responded"
    /\ chats[1].message = "q1"
    /\ chats[1].history = <<>>
    /\ chats[1].response = Success("a1")
    /\ chats[2].pc = "done"
    /\ chats[2].message = "q2"
    /\ conversationHistory = Turns("q2", "a2")

\* the texts the operations return in place of a model text: the fallback of
\* chatWithTransaction (lines 395, 477) and that of
\* generateTransactionSummary (line 283)
Placeholders == {"", "Unable to generate summary"}

\* C13: when the model response that determines the final answer holds no
\* text part, the operation does not return a success with an empty or a
\* placeholder text, and no assistant turn with an empty text is in the
\* transcript.
\* SpecSession violates it: chatWithTransaction returns {response: ''} and
\* generateTransactionSummary {summary: 'Unable to generate summary'}, both
\* sent as successes, and sendChatMessage pushes the empty assistant turn.
C13_NoContentReported ==
    /\ \A c \in RequestIds :
          (chats[c].action \in {"chatWithTransaction", "getTransactionSummary"}
              /\ chats[c].pc \in {"responded", "done"} /\ chats[c].response.success)
          => chats[c].response.response \notin Placeholders
    /\ \A i \in DOMAIN conversationHistory :
          conversationHistory[i].role = "assistant" => conversationHistory[i].content # ""

\* request c is a summary request that takes a step
SummaryStep(c) ==
    /\ chats'[c] # chats[c]
    /\ "getTransactionSummary" \in {chats[c].action, chats'[c].action}

DiagnosticsQueried(c) == Requested(c) /\ chats'[c].action = "diagnostics"

\* C15: a diagnostics query changes no state of the assistant (settings,
\* model client, tool client, tool list, tool schema, initialized flag), and
\* the flags of its response are those of the state it is made in:
\* settingsLoaded iff the settings are loaded, geminiInitialized iff the model
\* client exists, mcpToolsLoaded iff the cached tool list is non-empty.
C15_DiagnosticsPureRead ==
    [][\A c \in RequestIds :
          DiagnosticsQueried(c)
          => /\ UNCHANGED <<settings, genAI, mcpClient, clients, mcpTools, geminiTools,
                            isInitialized>>
             /\ chats'[c].pc = "responded"
             /\ chats'[c].response.success
             /\ chats'[c].response.diagnostics # None
             /\ LET flags == chats'[c].response.diagnostics[1]
                IN  /\ flags.settingsLoaded <=> settings # None
                    /\ flags.geminiInitialized <=> genAI # None
                    /\ flags.mcpToolsLoaded <=> (mcpTools # None /\ mcpTools[1] # <<>>)]_vars
\* a query answered by a background that has its settings and tools but no
\* model client
C15_Witness ==
    \E c \in RequestIds :
        /\ chats[c].pc = "responded"
        /\ chats[c].action = "diagnostics"
        /\ chats[c].response.diagnostics # None
        /\ chats[c].response.diagnostics[1].settingsLoaded
        /\ ~chats[c].response.diagnostics[1].geminiInitialized
        /\ chats[c].response.diagnostics[1].mcpToolsLoaded
        /\ mcpTools = Some(<<ToolTx, ToolAcct>>)

\* the request has an action the listener does not know, or is a summary or
\* chat request without its signature or message
InvalidRequest(request) ==
    /\ AnsweredAtOnce(request)
    /\ request.action \notin {"diagnostics", "ping"}

\* C16: every request to the listener gets exactly one response, a success
\* or an error with a message: none is sent while its operation is awaited,
\* one has been sent once the request is answered, and a request with an
\* unknown action, or a summary or chat request without its signature or
\* message, is answered by an error and has caused no model call and no tool
\* invocation.
C16_OneResponsePerRequest ==
    \A c \in RequestIds :
        /\ chats[c].pc \in {"idle", "connect", "list", "model1", "tool", "model2", "summary"}
              => chats[c].sent = 0
        /\ chats[c].pc \in {"responded", "done"}
              => /\ chats[c].sent = 1
                 /\ chats[c].response.success <=> chats[c].response.error = ""
        /\ (chats[c].pc \notin {"idle", "done"} /\ InvalidRequest(chats[c]))
              => /\ chats[c].pc = "responded"
                 /\ ~chats[c].response.success
                 /\ chats[c].modelCalls = 0
                 /\ chats[c].toolCalls = 0
\* a chat request without a message has its error while a chat of the page
\* has been answered by the model
C16_Witness ==
    /\ chats[2].pc = "responded"
    /\ chats[2].action = "chatWithTransaction"
    /\ chats[2].message = ""
    /\ chats[2].response = Failure("Transaction signature and message are required")
    /\ chats[2].sent = 1
    /\ chats[1].pc = "done"
    /\ chats[1].response = Success("a1")
    /\ chats[1].sent = 1

\* the prompt the builder of request c's kind gives for a language
PromptFor(c, language) ==
    IF chats[c].action = "chatWithTransaction"
    THEN getChatPrompt(chats[c].signature, chats[c].message, <<>>, language)
    ELSE getTransactionSummaryPrompt(chats[c].signature, language)
\* request c has had its prompt built and awaits the model
PromptBuilt(c) == chats[c].pc \in {"model1", "summary"}

\* C17: for each of the four supported language codes the summary prompt and
\* the chat prompt are non-empty and contain the signature verbatim, and for
\* every other code both builders return exactly the en-US prompt of the same
\* inputs.
\* SpecPrompt violates it: for the code "constructor" prompts[language] is
\* the inherited Object.prototype.constructor, which is truthy, so the
\* builders return it and not the en-US prompt.
C17_PromptPerLanguage ==
    \A c \in RequestIds :
        PromptBuilt(c)
        => LET language == settings[1].responseLanguage
           IN  /\ language \in PromptLanguages
                    => /\ chats[c].context # <<>>
                       /\ chats[c].signature \in Tokens(chats[c].context)
               /\ language \notin PromptLanguages
                    => chats[c].context = PromptFor(c, "en-US")

\* the number of awaited results a request can still need: the first model
\* call, then one per requested tool call, then the follow-up model call (or
\* the one call of a summary), then the delivery of the response
Rank(chat) ==
    CASE chat.pc = "model1" -> MaxCalls + 3
      [] chat.pc = "tool" -> (Len(chat.calls) - Len(chat.results)) + 2
      [] chat.pc \in {"model2", "summary"} -> 2
      [] chat.pc = "responded" -> 1
      [] OTHER -> 0

\* C18: the follow-up model call of a tool-calling exchange has one turn, of
\* role user, whose text is the exchange's first prompt followed by the
\* tool-results section, and no assistant turn of the transcript is in it;
\* whatever the follow-up response holds, the exchange is answered in that
\* step without another tool invocation; and an exchange makes at most two
\* model calls and terminates: each of its steps lowers its rank.
C18_FollowUpIsFinal ==
    [][\A c \in ChatIds :
          /\ chats'[c].modelCalls <= 2
          /\ chats'[c].pc = "model2"
                => /\ Len(chats'[c].finalContents) = 1
                   /\ chats'[c].finalContents[1].role = "user"
                   /\ chats'[c].finalContents[1].text =
                         chats'[c].context
                         \o FinalPromptAddition(settings[1].responseLanguage, chats'[c].results)
                   /\ \A i \in DOMAIN chats'[c].history :
                         chats'[c].history[i].role = "assistant"
                         => chats'[c].history[i].content
                               \notin Tokens(chats'[c].finalContents[1].text)
          /\ (chats[c].pc = "model2" /\ chats'[c] # chats[c])
                => /\ chats'[c].pc = "responded"
                   /\ chats'[c].modelCalls = 2
                   /\ chats'[c].toolCalls = chats[c].toolCalls
                   /\ chats'[c].toolCalls = Len(chats[c].calls)
                   /\ chats'[c].results = chats[c].results
          /\ (chats[c].pc # "idle" /\ chats'[c] # chats[c])
                => Rank(chats'[c]) < Rank(chats[c])]_vars
\* an exchange sent with a transcript of two turns is answered after two
\* tool invocations and a follow-up call that declared the tools
C18_Witness ==
    \E c \in ChatIds :
        /\ chats[c].pc = "responded"
        /\ chats[c].response.success
        /\ Len(chats[c].history) = 2
        /\ Len(chats[c].calls) = 2
        /\ chats[c].toolCalls = 2
        /\ chats[c].modelCalls = 2
        /\ chats[c].finalTools # None

\* the role the model API has for a role of the transcript
ModelRole(role) == IF role = "user" THEN "user" ELSE "model"
\* the first model call of request c is made or was made
FirstCallMade(c) ==
    /\ chats[c].action = "chatWithTransaction"
    /\ chats[c].pc \in {"model1", "tool", "model2", "responded"}
    /\ chats[c].modelCalls >= 1

\* C19: the first model call of a chat exchange carries the transcript it
\* was given, in order, followed by the prompt: Len(history) + 1 turns, turn
\* i with the text of history turn i and the role user for user and model
\* for assistant, the last turn of role user with the prompt; and the
\* history of the request stays as it was given.
C19_FirstCallReplaysTranscript ==
    [][\A c \in ChatIds :
          /\ FirstCallMade(c)'
                => LET chat == chats'[c]
                   IN  /\ Len(chat.contents) = Len(chat.history) + 1
                       /\ \A i \in DOMAIN chat.history :
                             /\ chat.contents[i].text = <<chat.history[i].content>>
                             /\ chat.contents[i].role = ModelRole(chat.history[i].role)
                       /\ chat.contents[Len(chat.contents)] =
                             [role |-> "user", text |-> chat.context]
          /\ Requested(c) /\ FirstCallMade(c)'
                => chats'[c].history = conversationHistory
          /\ FirstCallMade(c) /\ FirstCallMade(c)'
                => chats'[c].history = chats[c].history]_vars
\* a first call made with a transcript of two turns: three turns, the second
\* of role model
C19_Witness ==
    \E c \in ChatIds :
        /\ chats[c].pc = "model1"
        /\ chats[c].history = Turns("q2", "a2")
        /\ Len(chats[c].contents) = 3
        /\ chats[c].contents[2] = [role |-> "model", text |-> <<"a2">>]
        /\ chats[c].contents[3].role = "user"

\* the text holds the piece as a contiguous part
Embeds(text, piece) ==
    \E k \in 0..(Len(text) - Len(piece)) : SubSeq(text, k + 1, k + Len(piece)) = piece
\* a transcript as getChatPrompt serializes it (line 319): one line
\* "role: content" per turn, in order
Serialized(history) == Join(HistoryLines(history), <<"\n">>)

\* C20: the prompt built for a chat turn embeds the serialized transcript the
\* request carries (every turn as role and text, in order) and the question.
\* SpecThread violates it: chatWithTransaction calls getChatPrompt with []
\* for the history (line 368), so the prompt of a chat sent with a transcript
\* of two turns holds the question but neither turn.
C20_PromptEmbedsTranscript ==
    \A c \in ChatIds :
        FirstCallMade(c)
        => /\ chats[c].message \in Tokens(chats[c].context)
           /\ Embeds(chats[c].context, Serialized(chats[c].history))

\* C21: the conversion of a discovered tool list is total and keeps the
\* order: a non-empty list gives one declaration per tool, in the same order
\* and with the same name, a missing description as the empty string,
\* missing properties as the empty mapping and a missing required as the
\* empty list; an empty list gives no schema (null), not an empty
\* declaration list.
C21_ConversionOfTools ==
    /\ mcpTools = None => geminiTools = None
    /\ mcpTools # None /\ mcpTools[1] = <<>> => geminiTools = None
    /\ mcpTools # None /\ mcpTools[1] # <<>>
          => /\ geminiTools # None
             /\ LET tools == mcpTools[1]
                    declarations == geminiTools[1].functionDeclarations
                IN  /\ Len(declarations) = Len(tools)
                    /\ \A i \in DOMAIN tools :
                          /\ declarations[i].name = tools[i].name
                          /\ declarations[i].description =
                                (IF tools[i].description = None THEN ""
                                 ELSE tools[i].description[1])
                          /\ declarations[i].parameters.type = "object"
                          /\ declarations[i].parameters.properties =
                                (IF tools[i].properties = None THEN {}
                                 ELSE {tools[i].properties[1]})
                          /\ declarations[i].parameters.required =
                                (IF tools[i].required = None THEN <<>>
                                 ELSE tools[i].required[1])
\* the list <<get_account, get_solana_transaction>> was discovered: two
\* declarations in that order, the first with the defaults
C21_Witness ==
    /\ mcpTools = Some(<<ToolAcct, ToolTx>>)
    /\ geminiTools # None
    /\ Len(geminiTools[1].functionDeclarations) = 2
    /\ geminiTools[1].functionDeclarations[1] =
          [name |-> "get_account", description |-> "",
           parameters |-> [type |-> "object", properties |-> {}, required |-> <<>>]]
    /\ geminiTools[1].functionDeclarations[2].name = "get_solana_transaction"

\* the texts an exchange for a question can end with: the text of the
\* response that decides it (the first one when it requests no tool, else the
\* follow-up's), or the empty text
FinalTexts(chat) ==
    {"", IF chat.calls = <<>> THEN AnswerTo(chat.message) ELSE FinalAnswerTo(chat.message)}
\* a turn holds a question of the user or a final text of an exchange
QuestionOrAnswer(turn) ==
    \/ turn.role = "user" /\ turn.content \in Questions
    \/ turn.role = "assistant"
         /\ turn.content \in {""} \cup {AnswerTo(q) : q \in Questions}
                                 \cup {FinalAnswerTo(q) : q \in Questions}

\* C22: the transcript holds only turns of role user or assistant whose
\* content is a question of the user or the final text of an exchange: the
\* only steps that add to it add the question of an answered exchange and
\* the text of the response that decided it, never the text of a first
\* response that requested tools, a prompt, a tool call or a tool outcome.
C22_TranscriptOfQuestionsAndAnswers ==
    [][/\ \A i \in DOMAIN conversationHistory : QuestionOrAnswer(conversationHistory[i])
       /\ \A i \in DOMAIN conversationHistory' : QuestionOrAnswer(conversationHistory'[i])
       /\ conversationHistory' # conversationHistory
             => \/ conversationHistory' = <<>>
                \/ \E c \in ChatIds : \E text \in FinalTexts(chats[c]) :
                      /\ Received(c)
                      /\ conversationHistory' =
                            conversationHistory \o
                               <<[role |-> "user", content |-> chats[c].message],
                                 [role |-> "assistant", content |-> text]>>]_vars
\* after the turns of an earlier exchange, an exchange that invoked two tools
\* has added its question and the text of its follow-up response
C22_Witness ==
    /\ conversationHistory = Turns("q2", "a2") \o Turns("q1", "final1")
    /\ chats[1].pc = "done"
    /\ chats[1].message = "q1"

\* C23: after a failed discovery (connect or listTools rejected) the next
\* chat request to a configured model attempts the discovery again: its lazy
\* loadMCPTools constructs a client and awaits connect.
\* SpecExchange violates it: the client constructed at line 136 is still in
\* this.mcpClient after the failure, so loadMCPTools returns at line 114 and
\* the chat makes its model call without tools.
C23_FailedDiscoveryRetried ==
    [][\A c \in ChatIds :
          (Requested(c) /\ chats'[c].action = "chatWithTransaction" /\ genAI # None
              /\ DiscoveryFailed /\ Truthy(settings[1].mcpUrl))
          => /\ chats'[c].pc = "connect"
             /\ Len(clients') = Len(clients) + 1]_vars

\* operation o's listTools resolves in this step and its tools are cached
ToolsCachedBy(o) ==
    /\ ops[o].pc = "list"
    /\ ops'[o].pc = "done"
    /\ mcpTools' # None

\* C24: whenever a tool schema is held the tool client is not null, and the
\* tools a discovery caches were listed through the client that is current
\* when they are cached.
\* SpecReload violates it: a reloadMCPTools issued while init awaits
\* listTools replaces the client (lines 501, 136), and init's listTools, called
\* on the old client, then fills the cache (lines 150-155).
C24_SchemaOfCurrentClient ==
    [][/\ geminiTools' # None => mcpClient' # 0
       /\ \A o \in OpIds : ToolsCachedBy(o) => ops[o].client = mcpClient']_vars

\* C25: the response of a chat exchange that was started for another
\* transaction than the one the page now shows is never appended to the
\* transcript.
\* SpecThread violates it: resetUI empties the transcript but leaves the
\* pending sendChatMessage alone (part_001 lines 675-689), and once the chat
\* panel is open again the late response is pushed (lines 587-591).
C25_StaleResponseDropped ==
    [][\A c \in RequestIds :
          (Received(c) /\ chats[c].action = "chatWithTransaction"
              /\ chats[c].signature # transactionSignature)
          => conversationHistory' = conversationHistory]_vars

\* the texts the model can answer a question with
AnswersTo(message) == {"", AnswerTo(message), FinalAnswerTo(message)}

\* C26: the transcript has even length and alternates user, assistant, and
\* each assistant turn holds an answer to the question of the user turn
\* before it, whatever the order overlapping exchanges complete in.
C26_TranscriptAlternates ==
    /\ Len(conversationHistory) % 2 = 0
    /\ \A i \in DOMAIN conversationHistory :
          IF i % 2 = 1
          THEN /\ conversationHistory[i].role = "user"
               /\ conversationHistory[i].content \in Questions
          ELSE /\ conversationHistory[i].role = "assistant"
               /\ conversationHistory[i].content \in AnswersTo(conversationHistory[i - 1].content)
\* of two overlapping exchanges the one for q2 has completed and put its turns
\* in the transcript, while the response to q1, sent with an empty transcript,
\* is still to be received
C26_Witness ==
    /\ conversationHistory = Turns("q2", "a2")
    /\ chats[2].pc = "done"
    /\ chats[2].message = "q2"
    /\ chats[1].pc = "responded"
    /\ chats[1].message = "q1"
    /\ chats[1].history = <<>>
    /\ chats[1].response.success

\* request c has passed the check of this.genAI and is at an await of
\* generateTransactionSummary or chatWithTransaction
PastCredentialCheck(c) ==
    chats[c].pc \in {"connect", "list", "model1", "tool", "model2", "summary"}

\* C27: a model client that is not null implies settings that are not null,
\* and so do a summary and a chat request that have passed the check of the
\* model client.
C27_ClientImpliesSettings ==
    /\ genAI # None => settings # None
    /\ \A c \in RequestIds : PastCredentialCheck(c) => genAI # None /\ settings # None
\* a chat request is awaiting the model while the loadSettings of a
\* storage-change event and the one of a reloadSettings are both in flight
C27_Witness ==
    /\ genAI # None
    /\ \E c \in RequestIds : chats[c].pc = "model1"
    /\ \E o \in OpIds : ops[o].kind = "onChanged" /\ ops[o].pc = "loadSettings"
    /\ \E o \in OpIds : ops[o].kind = "reloadSettings" /\ ops[o].pc = "loadSettings"

\* the summary requests the page has sent and not received the response of
SummariesInFlight ==
    {c \in RequestIds : /\ chats[c].action = "getTransactionSummary"
                        /\ chats[c].pc \in {"summary", "responded"}}

\* C28: at most one summary request of the page is in flight, and isLoading
\* is set exactly while one is: no summary request is sent while the flag is
\* set, and the receipt of a response, success or failure, clears it.
C28_OneSummaryInFlight ==
    [][/\ Cardinality(SummariesInFlight') <= 1
       /\ isLoading' <=> SummariesInFlight' # {}
       /\ \A c \in RequestIds :
             /\ (Requested(c) /\ chats'[c].action = "getTransactionSummary") => ~isLoading
             /\ (Received(c) /\ chats[c].action = "getTransactionSummary") => ~isLoading']_vars
\* a summary attempt has failed and been received, and the next trigger has
\* sent a second request, which is in flight
C28_Witness ==
    /\ chats[1].pc = "done"
    /\ chats[1].action = "getTransactionSummary"
    /\ ~chats[1].response.success
    /\ chats[2].pc = "summary"
    /\ isLoading

\* C29: when the loadSettings started by a storage-change event completes
\* after init has run to its end, with no other operation in flight, and the
\* store holds a credential, the model client is not null, so that a
\* summary or chat request passes the check of lines 259 and 340.
\* SpecRegistry violates it: the storage.onChanged listener calls loadSettings
\* alone (lines 700-708), and only initializeGemini constructs the model
\* client.
C29_SavedCredentialReady ==
    [][\A o \in OpIds :
          (ops[o].kind = "onChanged" /\ ops[o].pc = "loadSettings" /\ ops'[o].pc = "done"
              /\ Truthy(store.geminiApiKey) /\ isInitialized
              /\ \A p \in OpIds \ {o} : ops[p].pc \in {"idle", "done"})
          => genAI' # None]_vars

(* ----------------------- generation parameters ------------------------ *)
\* the temperatures (in tenths) and output caps a settings store can hold
StoredTemperatures == {0, 5, 10}
StoredMaxTokens == {0, 1024}
\* the stores with a credential, with and without a stored temperature and
\* a stored output cap
NumericStores ==
    LET base == [geminiApiKey : {"key1"}, mcpUrl : {""}, responseLanguage : StoredLanguages]
    IN  base
        \cup [geminiApiKey : {"key1"}, mcpUrl : {""}, responseLanguage : StoredLanguages,
              temperature : StoredTemperatures]
        \cup [geminiApiKey : {"key1"}, mcpUrl : {""}, responseLanguage : StoredLanguages,
              maxTokens : StoredMaxTokens]
        \cup [geminiApiKey : {"key1"}, mcpUrl : {""}, responseLanguage : StoredLanguages,
              temperature : StoredTemperatures, maxTokens : StoredMaxTokens]

\* the state after construction over any such store
InitNumeric ==
    /\ store \in NumericStores
    /\ remoteTools = <<>>
    /\ settings = None
    /\ genAI = None
    /\ mcpClient = 0
    /\ mcpTools = None
    /\ geminiTools = None
    /\ isInitialized = FALSE
    /\ clients = <<>>
    /\ ops = [o \in OpIds |-> IF o = 1 THEN [IdleOp EXCEPT !.kind = "init", !.pc = "loadSettings"]
                              ELSE IdleOp]
    /\ chats = [c \in RequestIds |-> IdleChat]
    /\ conversationHistory = <<>>
    /\ transactionSignature = "SIG1"
    /\ chatPanel = FALSE
    /\ isLoading = FALSE

\* The model calls of a page's chat and summary requests, for every stored
\* temperature and output cap.
NextNumeric ==
    \/ \E o \in OpIds : OpSettingsLoaded(o)
    \/ ShowChatPanel
    \/ \E c \in RequestIds : SendChat(c, "q1")
    \/ \E c \in RequestIds : RequestSummary(c)
    \/ \E c \in RequestIds : \E reply \in ModelReplies(chats[c].message, chats[c].tools) :
          ModelReplied(c, reply)
    \/ \E c \in RequestIds : \E reply \in ModelReplies(chats[c].message, None) :
          SummaryReplied(c, reply)
SpecNumeric == InitNumeric /\ [][NextNumeric]_vars

\* the value stored under a key, or the default when none is stored
StoredOr(key, d) == IF key \in DOMAIN store THEN store[key] ELSE d

\* C30: the temperature and the output cap of every model request are the
\* stored values, and the defaults only when no value is stored.
\* SpecNumeric violates it: loadSettings reads `result.temperature || 0.7` and
\* `result.maxTokens || 2048` (lines 86-87), which give the default for a
\* stored 0.
C30_StoredValuesUsed ==
    \A c \in RequestIds :
        chats[c].generationConfig # None
        => /\ chats[c].generationConfig[1].temperature = StoredOr("temperature", DefaultTemperature)
           /\ chats[c].generationConfig[1].maxOutputTokens = StoredOr("maxTokens", DefaultMaxTokens)
=========================================================================
